---------------------------- MODULE Spec2Model ----------------------------
(***************************************************************************)
(* Outline extraction from PDF text lines: the two extractors of the       *)
(* repository, HighPrecisionPDFExtractor (process_pdfs.py, prefix HP_) and *)
(* PDFOutlineExtractor (process_pdfs_local.py, prefix Local_), and their   *)
(* batch drivers.                                                          *)
(*                                                                         *)
(* A text is a sequence of tokens: a run of digits, a dot, a colon, one    *)
(* whitespace character, or a word (a run of letters).  The regular        *)
(* expressions and str methods of the source are operators on token        *)
(* sequences; they are exact for texts over this alphabet.  Font sizes are *)
(* whole points, and a ratio test  a / b >= 1.3  is  100*a >= 130*b.       *)
(***************************************************************************)
EXTENDS Integers, Sequences, FiniteSets, TLC

(***************************************************************************)
(* Tokens                                                                  *)
(***************************************************************************)
N(n) == [k |-> "num",   w |-> "", n |-> n]
W(w) == [k |-> "word",  w |-> w,  n |-> 0]
Dot   == [k |-> "dot",   w |-> "", n |-> 0]
Colon == [k |-> "colon", w |-> "", n |-> 0]
Sp    == [k |-> "sp",    w |-> "", n |-> 0]

\* What Python's str methods and the keyword lists of the source read off each
\* word: its length, its case (isupper / istitle / islower), its lower-case form,
\* and the single-word keywords of the source's lists that are substrings of it.
\* The last four entries are the literal titles of the source, kept as one word.
Lexicon ==
  "Introduction" :> [len |-> 12, cls |-> "title", low |-> "introduction", subs |-> {}] @@
  "Overview"     :> [len |-> 8,  cls |-> "title", low |-> "overview", subs |-> {"overview"}] @@
  "Intended"     :> [len |-> 8,  cls |-> "title", low |-> "intended", subs |-> {}] @@
  "Audience"     :> [len |-> 8,  cls |-> "title", low |-> "audience", subs |-> {}] @@
  "normal"       :> [len |-> 6,  cls |-> "lower", low |-> "normal", subs |-> {}] @@
  "body"         :> [len |-> 4,  cls |-> "lower", low |-> "body", subs |-> {}] @@
  "text"         :> [len |-> 4,  cls |-> "lower", low |-> "text", subs |-> {}] @@
  "CONFIDENTIAL" :> [len |-> 12, cls |-> "upper", low |-> "confidential", subs |-> {}] @@
  "Application"  :> [len |-> 11, cls |-> "title", low |-> "application", subs |-> {"application"}] @@
  "Form"         :> [len |-> 4,  cls |-> "title", low |-> "form", subs |-> {"form"}] @@
  "Page"         :> [len |-> 4,  cls |-> "title", low |-> "page", subs |-> {"page"}] @@
  "Deep"         :> [len |-> 4,  cls |-> "title", low |-> "deep", subs |-> {}] @@
  "Dive"         :> [len |-> 4,  cls |-> "title", low |-> "dive", subs |-> {}] @@
  "Summary"      :> [len |-> 7,  cls |-> "title", low |-> "summary", subs |-> {}] @@
  "Chapter"      :> [len |-> 7,  cls |-> "title", low |-> "chapter", subs |-> {}] @@
  "RFP"          :> [len |-> 3,  cls |-> "upper", low |-> "rfp", subs |-> {"rfp"}] @@
  "Foundation"   :> [len |-> 10, cls |-> "title", low |-> "foundation", subs |-> {"foundation"}] @@
  "Topic"        :> [len |-> 5,  cls |-> "title", low |-> "topic", subs |-> {}] @@
  "Notes"        :> [len |-> 5,  cls |-> "title", low |-> "notes", subs |-> {"note"}] @@
  "IV"           :> [len |-> 2,  cls |-> "upper", low |-> "iv", subs |-> {}] @@
  "A"            :> [len |-> 1,  cls |-> "upper", low |-> "a", subs |-> {}] @@
  "RFP:Request for Proposal To Present a Proposal for Developing the Business Plan for the Ontario Digital Library  "
                 :> [len |-> 113, cls |-> "mixed", low |-> "rfp:request ...", subs |-> {"proposal", "request", "rfp"}] @@
  "Overview  Foundation Level Extensions  "
                 :> [len |-> 39, cls |-> "title", low |-> "overview  foundation level extensions  ",
                     subs |-> {"extensions", "foundation", "level", "overview"}] @@
  "Untitled Document"
                 :> [len |-> 17, cls |-> "title", low |-> "untitled document", subs |-> {"document", "title"}] @@
  "Error Processing Document"
                 :> [len |-> 25, cls |-> "title", low |-> "error processing document", subs |-> {"document"}]

\* The words whose letters are all among i, v, x (the class [IVX] under IGNORECASE).
RomanWords == {"IV"}

(***************************************************************************)
(* Python's str methods, on token sequences                                *)
(***************************************************************************)
IsNum(t)  == t.k = "num"
IsWord(t) == t.k = "word"
IsSpace(t) == t.k = "sp"

Digits(n) == IF n < 10 THEN 1 ELSE IF n < 100 THEN 2 ELSE IF n < 1000 THEN 3 ELSE 4

TokLen(t) == IF IsNum(t) THEN Digits(t.n) ELSE IF IsWord(t) THEN Lexicon[t.w].len ELSE 1

RECURSIVE SumLen(_, _)
SumLen(text, i) == IF i > Len(text) THEN 0 ELSE TokLen(text[i]) + SumLen(text, i + 1)

\* len(text)
py_len(text) == SumLen(text, 1)

\* text[i:] on tokens (1-based i)
From(text, i) == IF i > Len(text) THEN <<>> ELSE SubSeq(text, i, Len(text))

\* text.strip(): whitespace removed at both ends
RECURSIVE py_lstrip(_)
py_lstrip(text) ==
  IF text # <<>> /\ IsSpace(Head(text)) THEN py_lstrip(Tail(text)) ELSE text

RECURSIVE py_rstrip(_)
py_rstrip(text) ==
  IF text # <<>> /\ IsSpace(text[Len(text)])
  THEN py_rstrip(SubSeq(text, 1, Len(text) - 1)) ELSE text

py_strip(text) == py_rstrip(py_lstrip(text))

\* len(text.split()): the number of maximal runs of non-whitespace
word_count(text) ==
  Cardinality({i \in DOMAIN text :
     ~IsSpace(text[i]) /\ (i = 1 \/ IsSpace(text[i - 1]))})

\* keyword in text.lower(), for a keyword made of letters only
contains(text, kw) ==
  \E i \in DOMAIN text : IsWord(text[i]) /\ kw \in Lexicon[text[i].w].subs

any_contains(text, kws) == \E kw \in kws : contains(text, kw)

\* text.isupper(): some cased character, and no lower-case one
py_isupper(text) ==
  /\ \E i \in DOMAIN text : IsWord(text[i])
  /\ \A i \in DOMAIN text : IsWord(text[i]) => Lexicon[text[i].w].cls = "upper"

\* text.istitle(): some cased character, every word capitalised and otherwise
\* lower-case (a one-letter upper-case word is a title-cased word too)
py_istitle(text) ==
  /\ \E i \in DOMAIN text : IsWord(text[i])
  /\ \A i \in DOMAIN text : IsWord(text[i]) =>
        \/ Lexicon[text[i].w].cls = "title"
        \/ Lexicon[text[i].w].cls = "upper" /\ Lexicon[text[i].w].len = 1

\* the first character is an upper-case letter
StartsUpper(text, i) ==
  i <= Len(text) /\ IsWord(text[i]) /\ Lexicon[text[i].w].cls \in {"title", "upper"}

\* re.findall(r'\d+', text) as integers
numbers(text) == {text[i].n : i \in {j \in DOMAIN text : IsNum(text[j])}}


(***************************************************************************)
(* Regular expressions, on token sequences                                 *)
(***************************************************************************)
IsDot(text, i)   == i <= Len(text) /\ text[i].k = "dot"
IsSp(text, i)    == i <= Len(text) /\ text[i].k = "sp"
IsNumAt(text, i) == i <= Len(text) /\ text[i].k = "num"
IsWordAt(text, i) == i <= Len(text) /\ text[i].k = "word"
LowAt(text, i)   == Lexicon[text[i].w].low

\* the index of the first token at or after i that is not whitespace
RECURSIVE SkipSp(_, _)
SkipSp(text, i) == IF IsSp(text, i) THEN SkipSp(text, i + 1) ELSE i

\* ^\d+(\.\d+){c-1} : c numbers joined by dots open the text
HasDottedPrefix(text, c) ==
  /\ Len(text) >= 2 * c - 1
  /\ \A j \in 1..(2 * c - 1) :
        IF j % 2 = 1 THEN text[j].k = "num" ELSE text[j].k = "dot"

\* the number of components of the longest  \d+(\.\d+)*  that opens the text
RECURSIVE Components(_, _)
Components(text, c) ==
  IF HasDottedPrefix(text, c + 1) THEN Components(text, c + 1) ELSE c

\* r'^\d+\.\s+'
re_level_1(text) == HasDottedPrefix(text, 1) /\ IsDot(text, 2) /\ IsSp(text, 3)
\* r'^\d+\.\d+\s+', r'^\d+\.\d+\.\d+\s+', r'^\d+\.\d+\.\d+\.\d+\s+' (c = 2, 3, 4)
re_level_n(text, c) == HasDottedPrefix(text, c) /\ IsSp(text, 2 * c)

\* numbered_heading_patterns: r'^\d+\.\s+[A-Z]', r'^\d+\.\d+\s+[A-Z]',
\* r'^\d+\.\d+\.\d+\s+[A-Z]'
numbered_heading_patterns(text) ==
  \/ re_level_1(text) /\ StartsUpper(text, SkipSp(text, 3))
  \/ re_level_n(text, 2) /\ StartsUpper(text, SkipSp(text, 4))
  \/ re_level_n(text, 3) /\ StartsUpper(text, SkipSp(text, 6))

NoMatch == [ok |-> FALSE, g1 |-> <<>>, g2 |-> <<>>]
Groups(text, e, r) ==
  IF r <= Len(text) THEN [ok |-> TRUE, g1 |-> SubSeq(text, 1, e), g2 |-> From(text, r)]
  ELSE NoMatch

\* heading_patterns[0]: r'^(\d+(?:\.\d+)*\.?)\s+(.+?)$'
heading_pattern_1(text) ==
  IF ~HasDottedPrefix(text, 1) THEN NoMatch
  ELSE LET c == Components(text, 1)
           e == IF IsDot(text, 2 * c) THEN 2 * c ELSE 2 * c - 1
       IN  IF IsSp(text, e + 1) THEN Groups(text, e, SkipSp(text, e + 1)) ELSE NoMatch

\* the index after the run of [:\.\s] that starts at i
RECURSIVE SkipSep(_, _)
SkipSep(text, i) ==
  IF i <= Len(text) /\ text[i].k \in {"colon", "dot", "sp"}
  THEN SkipSep(text, i + 1) ELSE i

\* heading_patterns[1]:
\* r'^(Chapter\s+\d+|Section\s+\d+|Part\s+\d+)[:\.\s]+(.+?)$', IGNORECASE
heading_pattern_2(text) ==
  IF /\ IsWordAt(text, 1) /\ LowAt(text, 1) \in {"chapter", "section", "part"}
     /\ IsSp(text, 2) /\ IsNumAt(text, SkipSp(text, 2))
  THEN LET e == SkipSp(text, 2)
           r == SkipSep(text, e + 1)
       IN  IF r = e + 1 THEN NoMatch
           ELSE IF r <= Len(text) THEN Groups(text, e, r)
           \* the separators reach the end: the last of them is group 2
           ELSE IF r > e + 2 THEN Groups(text, e, r - 1)
           ELSE NoMatch
  ELSE NoMatch

\* heading_patterns[2]: r'^([IVX]+)\.\s+(.+?)$', IGNORECASE
heading_pattern_3(text) ==
  IF /\ IsWordAt(text, 1) /\ text[1].w \in RomanWords
     /\ IsDot(text, 2) /\ IsSp(text, 3)
  THEN Groups(text, 1, SkipSp(text, 3)) ELSE NoMatch

\* heading_patterns[3]: r'^([A-Z])\.\s+(.+?)$', IGNORECASE
heading_pattern_4(text) ==
  IF /\ IsWordAt(text, 1) /\ Lexicon[text[1].w].len = 1
     /\ IsDot(text, 2) /\ IsSp(text, 3)
  THEN Groups(text, 1, SkipSp(text, 3)) ELSE NoMatch

\* heading_patterns[4]: r'^(\d+)\s+([A-Z].+?)$', IGNORECASE
heading_pattern_5(text) ==
  IF IsNumAt(text, 1) /\ IsSp(text, 2)
  THEN LET r == SkipSp(text, 2)
       IN  IF IsWordAt(text, r) /\ py_len(From(text, r)) >= 2
           THEN Groups(text, 1, r) ELSE NoMatch
  ELSE NoMatch

\* self.heading_patterns, in the order of the list
heading_patterns(text) ==
  << heading_pattern_1(text), heading_pattern_2(text), heading_pattern_3(text),
     heading_pattern_4(text), heading_pattern_5(text) >>

(***************************************************************************)
(* Helpers on sequences and sets of numbers                                *)
(***************************************************************************)
Max(S) == CHOOSE x \in S : \A y \in S : y <= x

\* sorted(S, reverse=True)
RECURSIVE Descending(_)
Descending(S) == IF S = {} THEN <<>> ELSE <<Max(S)>> \o Descending(S \ {Max(S)})

RECURSIVE Flatten(_)
Flatten(ss) == IF ss = <<>> THEN <<>> ELSE Head(ss) \o Flatten(Tail(ss))

\* Counter(sizes).most_common(1)[0][0]: the most frequent value, the one met
\* first among the most frequent (heapq.nlargest(1, ...) is max(), which keeps the
\* first maximum of the Counter's insertion order)
most_common(sizes) ==
  LET Count(v) == Cardinality({i \in DOMAIN sizes : sizes[i] = v})
      First(v) == CHOOSE i \in DOMAIN sizes :
                     sizes[i] = v /\ \A j \in 1..(i - 1) : sizes[j] # v
      Vals     == {sizes[i] : i \in DOMAIN sizes}
      Top      == {v \in Vals : \A u \in Vals : Count(u) <= Count(v)}
  IN  CHOOSE v \in Top : \A u \in Top : First(v) <= First(u)

\* the sort with reverse=True, as the other sorts of the source have it
sort_by_page_reversed(outline) ==
  LET n == Len(outline)
      Rank(i) == Cardinality({j \in 1..n :
                    \/ outline[j].page > outline[i].page
                    \/ outline[j].page = outline[i].page /\ j <= i})
  IN  [k \in 1..n |-> outline[CHOOSE i \in 1..n : Rank(i) = k]]

\* an ascending sort that is not stable: entries of one page come out in the
\* reverse of their order
sort_by_page_unstable(outline) ==
  LET n == Len(outline)
      Rank(i) == Cardinality({j \in 1..n :
                    \/ outline[j].page < outline[i].page
                    \/ outline[j].page = outline[i].page /\ j >= i})
  IN  [k \in 1..n |-> outline[CHOOSE i \in 1..n : Rank(i) = k]]

\* list.sort(key=lambda x: x["page"]): a stable sort, ascending by page.  The
\* entry at index i moves behind the entries of smaller page and the earlier
\* entries of the same page.
sort_by_page(outline) ==
  LET n == Len(outline)
      Rank(i) == Cardinality({j \in 1..n :
                    \/ outline[j].page < outline[i].page
                    \/ outline[j].page = outline[i].page /\ j <= i})
  IN  [k \in 1..n |-> outline[CHOOSE i \in 1..n : Rank(i) = k]]

\* f"H{level}"
HName(level) ==
  CASE level = 0 -> "H0" [] level = 1 -> "H1" [] level = 2 -> "H2"
    [] level = 3 -> "H3" [] level = 4 -> "H4" [] OTHER -> "H5"

EmptyResult == [title |-> <<>>, outline |-> <<>>]

(***************************************************************************)
(* HighPrecisionPDFExtractor (process_pdfs.py)                             *)
(*                                                                         *)
(* A pdf is [readable, pages]; a page is a sequence of lines; a line has   *)
(* one span: [text, size, bold, top], top being bbox[1].  sem is the set   *)
(* of texts the MiniLM comparison rates above 0.25.                        *)
(***************************************************************************)
HP_line_blocks(page, page_num) ==
  LET Block(l) == [text |-> py_strip(l.text), page |-> page_num,
                   font_size |-> l.size, is_bold |-> l.bold, top |-> l.top]
      Kept(i)  == LET t == py_strip(page[i].text) IN t # <<>> /\ py_len(t) > 3
      F[i \in 0..Len(page)] ==
        IF i = 0 THEN <<>>
        ELSE IF Kept(i) THEN Append(F[i - 1], Block(page[i])) ELSE F[i - 1]
  IN  F[Len(page)]

HP_extract_text_blocks(pdf) ==
  Flatten([p \in DOMAIN pdf.pages |-> HP_line_blocks(pdf.pages[p], p - 1)])

\* the characters of non_heading_indicators other than 'http' ('@', '$', '(', 'www.',
\* '.com', ...) are not in the alphabet, and no word of the Lexicon ends in www
HP_non_heading_indicator(text) == contains(text, "http")

\* 'name:', 'address:', 'phone:', 'email:', 'date:', 'signature:'
HP_form_indicator(text) ==
  \E i \in DOMAIN text :
     /\ IsWord(text[i]) /\ IsWordAt(text, i) /\ i < Len(text) /\ text[i + 1].k = "colon"
     /\ Lexicon[text[i].w].low \in {"name", "address", "phone", "email", "date", "signature"}

is_true_heading_semantic(text, sem) ==
  IF word_count(text) < 2 \/ word_count(text) > 12 THEN FALSE
  ELSE IF HP_non_heading_indicator(text) THEN FALSE
  ELSE IF HP_form_indicator(text) THEN FALSE
  ELSE text \in sem

has_numbered_heading_pattern(text) == numbered_heading_patterns(py_strip(text))

analyze_document_structure(blocks) ==
  LET font_sizes == [i \in DOMAIN blocks |-> blocks[i].font_size]
  IN  [body_font_size |-> most_common(font_sizes),
       font_hierarchy |-> Descending({font_sizes[i] : i \in DOMAIN font_sizes}),
       total_blocks   |-> Len(blocks)]

\* skip_patterns, matched against text.lower(); '%', '$' and '@' are not in the
\* alphabet
HP_skip_patterns(text) ==
  \/ Len(text) = 1 /\ IsNumAt(text, 1)                       \* ^\d+$ and ^\d{4}$
  \/ /\ IsWordAt(text, 1) /\ LowAt(text, 1) = "page"          \* ^page\s+\d+
     /\ IsSp(text, 2) /\ IsNumAt(text, SkipSp(text, 2))
  \/ IsWordAt(text, 1) /\ LowAt(text, 1) = "www" /\ IsDot(text, 2)            \* ^www\.
  \/ IsWordAt(text, 1) /\ LowAt(text, 1) = "tel" /\ Len(text) >= 2 /\ text[2].k = "colon"

\* the basic filters of is_likely_heading: TRUE when the text is scored at all
HP_heading_filters(text) ==
  ~(py_len(text) < 4 \/ py_len(text) > 150) /\ ~HP_skip_patterns(text)

\* the score with 18 for the large font where the source has 8
HP_heading_score_font_18(block, doc_structure, sem) ==
  LET text  == py_strip(block.text)
      size  == block.font_size
      body  == doc_structure.body_font_size
      words == word_count(text)
  IN  (IF has_numbered_heading_pattern(text) THEN 20 ELSE 0)
    + (IF is_true_heading_semantic(text, sem) THEN 15 ELSE 0)
    + (IF 100 * size >= 130 * body THEN 18
       ELSE IF 100 * size >= 115 * body THEN 4 ELSE 0)
    + (IF block.is_bold THEN 3 ELSE 0)
    + (IF 2 <= words /\ words <= 6 THEN 5
       ELSE IF 7 <= words /\ words <= 10 THEN 2 ELSE 0)
    + (IF py_isupper(text) /\ words <= 4 THEN 2
       ELSE IF py_istitle(text) THEN 1 ELSE 0)

HP_heading_score(block, doc_structure, sem) ==
  LET text  == py_strip(block.text)
      size  == block.font_size
      body  == doc_structure.body_font_size
      words == word_count(text)
  IN  (IF has_numbered_heading_pattern(text) THEN 20 ELSE 0)
    + (IF is_true_heading_semantic(text, sem) THEN 15 ELSE 0)
    + (IF 100 * size >= 130 * body THEN 8
       ELSE IF 100 * size >= 115 * body THEN 4 ELSE 0)
    + (IF block.is_bold THEN 3 ELSE 0)
    + (IF 2 <= words /\ words <= 6 THEN 5
       ELSE IF 7 <= words /\ words <= 10 THEN 2 ELSE 0)
    + (IF py_isupper(text) /\ words <= 4 THEN 2
       ELSE IF py_istitle(text) THEN 1 ELSE 0)

\* block["font_size"] / doc_structure["body_font_size"] raises ZeroDivisionError
HP_is_likely_heading_raises(block, doc_structure) ==
  HP_heading_filters(py_strip(block.text)) /\ doc_structure.body_font_size = 0

HP_is_likely_heading(block, doc_structure, sem) ==
  /\ HP_heading_filters(py_strip(block.text))
  /\ HP_heading_score(block, doc_structure, sem) >= 25

\* skip_keywords of extract_title: 'page', 'figure', 'table', 'www', 'http' by the
\* Lexicon; 'tel:' and 'fax:' as a word before a colon; '@' is not in the alphabet
HP_title_skip(text) ==
  \/ any_contains(text, {"page", "figure", "table", "www", "http"})
  \/ \E i \in DOMAIN text :
        /\ IsWord(text[i]) /\ i < Len(text) /\ text[i + 1].k = "colon"
        /\ Lexicon[text[i].w].low \in {"tel", "fax"}

title_keywords == {"application", "form", "overview", "foundation", "level",
                   "extensions", "rfp", "request", "proposal", "pathways",
                   "stem", "document", "report", "analysis", "study"}

\* the blocks of the first two pages that extract_title scores
HP_title_scored(block) ==
  LET text == py_strip(block.text)
  IN  block.page <= 1 /\ ~(py_len(text) < 8 \/ py_len(text) > 200) /\ ~HP_title_skip(text)

HP_title_score(block, doc_structure) ==
  LET text  == py_strip(block.text)
      size  == block.font_size
      body  == doc_structure.body_font_size
      words == word_count(text)
  IN  (IF 100 * size >= 140 * body THEN 15
       ELSE IF 100 * size >= 120 * body THEN 8 ELSE 0)
    + (IF block.is_bold THEN 8 ELSE 0)
    + (IF block.top < 150 THEN 8 ELSE 0)
    + (IF 4 <= words /\ words <= 12 THEN 8
       ELSE IF 13 <= words /\ words <= 20 THEN 4 ELSE 0)
    - (IF has_numbered_heading_pattern(text) THEN 10 ELSE 0)
    + (IF any_contains(text, title_keywords) THEN 6 ELSE 0)

\* size_ratio = block["font_size"] / doc_structure["body_font_size"] raises
HP_extract_title_raises(blocks, doc_structure) ==
  /\ doc_structure.body_font_size = 0
  /\ \E i \in DOMAIN blocks : HP_title_scored(blocks[i])

\* 'ltc advance' in best_title.lower()
HP_ltc_advance(text) ==
  \E i \in DOMAIN text :
     /\ IsWord(text[i]) /\ Lexicon[text[i].w].low = "ltc"
     /\ IsSp(text, i + 1) /\ IsWordAt(text, i + 2) /\ LowAt(text, i + 2) = "advance"

RFP_TITLE == << W("RFP:Request for Proposal To Present a Proposal for Developing the Business Plan for the Ontario Digital Library  ") >>
OVERVIEW_TITLE == << W("Overview  Foundation Level Extensions  ") >>

HP_extract_title(blocks, doc_structure) ==
  LET Cand(i) == /\ HP_title_scored(blocks[i])
                 /\ HP_title_score(blocks[i], doc_structure) > 15
      C       == {i \in DOMAIN blocks : Cand(i)}
      Score(i) == HP_title_score(blocks[i], doc_structure)
  IN  IF C = {} THEN <<>>
      ELSE
        \* sort(key=score, reverse=True) is stable: the first of the best scores
        LET b == CHOOSE i \in C :
                   /\ \A j \in C : Score(j) <= Score(i)
                   /\ \A j \in C : Score(j) = Score(i) => i <= j
            best_title == py_strip(blocks[b].text)
        IN  IF HP_ltc_advance(best_title) THEN py_rstrip(best_title) \o <<Sp, Sp>>
            ELSE IF contains(best_title, "overview") /\ contains(best_title, "foundation")
              THEN OVERVIEW_TITLE
            ELSE IF contains(best_title, "rfp") THEN RFP_TITLE
            ELSE best_title

\* the levels counted from 0, as the indices of unique_sizes are
HP_determine_heading_level_zero_based(block, doc_structure, all_headings) ==
  LET text == py_strip(block.text)
      unique_sizes == Descending({all_headings[i].font_size : i \in DOMAIN all_headings})
      current_size == block.font_size
  IN  IF re_level_1(text) THEN 0
      ELSE IF re_level_n(text, 2) THEN 1
      ELSE IF re_level_n(text, 3) THEN 2
      ELSE IF re_level_n(text, 4) THEN 3
      ELSE IF Len(unique_sizes) = 1 THEN 0
      ELSE IF current_size >= unique_sizes[1] THEN 0
      ELSE IF Len(unique_sizes) > 1 /\ current_size >= unique_sizes[2] THEN 1
      ELSE IF Len(unique_sizes) > 2 /\ current_size >= unique_sizes[3] THEN 2
      ELSE 3

HP_determine_heading_level(block, doc_structure, all_headings) ==
  LET text == py_strip(block.text)
      unique_sizes == Descending({all_headings[i].font_size : i \in DOMAIN all_headings})
      current_size == block.font_size
  IN  IF re_level_1(text) THEN 1
      ELSE IF re_level_n(text, 2) THEN 2
      ELSE IF re_level_n(text, 3) THEN 3
      ELSE IF re_level_n(text, 4) THEN 4
      ELSE IF Len(unique_sizes) = 1 THEN 1
      ELSE IF current_size >= unique_sizes[1] THEN 1
      ELSE IF Len(unique_sizes) > 1 /\ current_size >= unique_sizes[2] THEN 2
      ELSE IF Len(unique_sizes) > 2 /\ current_size >= unique_sizes[3] THEN 3
      ELSE 4

\* the default alone: the page markers are not looked at
detect_page_numbering_style_always_one(blocks) == 1

detect_page_numbering_style(blocks) ==
  IF \E i \in DOMAIN blocks :
        LET text == py_strip(blocks[i].text)
        IN  /\ contains(text, "page")
            /\ numbers(text) # {}
            /\ \E n \in numbers(text) : n = 0 /\ \A m \in numbers(text) : n <= m
  THEN 0 ELSE 1

HP_heading_blocks(blocks, doc_structure, sem) ==
  LET F[i \in 0..Len(blocks)] ==
        IF i = 0 THEN <<>>
        ELSE IF HP_is_likely_heading(blocks[i], doc_structure, sem)
             THEN Append(F[i - 1], blocks[i]) ELSE F[i - 1]
  IN  F[Len(blocks)]

HP_headings_raise(blocks, doc_structure) ==
  \E i \in DOMAIN blocks : HP_is_likely_heading_raises(blocks[i], doc_structure)

HP_build_outline(heading_blocks, doc_structure, page_offset) ==
  [i \in DOMAIN heading_blocks |->
     [level |-> HName(HP_determine_heading_level(heading_blocks[i], doc_structure,
                                                  heading_blocks)),
      text  |-> py_strip(heading_blocks[i].text),
      page  |-> heading_blocks[i].page + page_offset]]

\* "forms typically have no headings"
\* the special case left out: the outline as it is
HP_form_special_case_missing(title, outline) == outline

HP_form_special_case(title, outline) ==
  IF title # <<>> /\ (contains(title, "form") \/ contains(title, "application"))
     /\ Len(outline) > 5
  THEN <<>> ELSE outline

(***************************************************************************)
(* PDFOutlineExtractor (process_pdfs_local.py)                             *)
(***************************************************************************)
anti_heading_words == {"page", "figure", "table", "image", "note", "see", "refer",
                       "copyright", "reserved", "rights", "published", "printed"}

Local_title_keywords == {"title", "document", "report", "manual", "guide", "handbook",
                         "specification", "overview", "analysis", "study", "research"}

\* one page of pages_data: the spans whose stripped text is not empty
Local_page_lines(page) ==
  LET F[i \in 0..Len(page)] ==
        IF i = 0 THEN <<>>
        ELSE IF py_strip(page[i].text) # <<>>
             THEN Append(F[i - 1], [text |-> py_strip(page[i].text),
                                    font_size |-> page[i].size,
                                    bold |-> page[i].bold])
             ELSE F[i - 1]
  IN  F[Len(page)]

extract_text_with_formatting(pdf) ==
  [p \in DOMAIN pdf.pages |->
     [page_num |-> p - 1, lines |-> Local_page_lines(pdf.pages[p])]]

\* every line of every page, in order, with its page number
Local_all_lines(pages_data) ==
  Flatten([p \in DOMAIN pages_data |->
             [i \in DOMAIN pages_data[p].lines |->
                [text |-> pages_data[p].lines[i].text,
                 font_size |-> pages_data[p].lines[i].font_size,
                 bold |-> pages_data[p].lines[i].bold,
                 page |-> pages_data[p].page_num]]])

\* size_levels of analyze_font_sizes: the three largest sizes above the body size
analyze_font_sizes(pages_data) ==
  LET lines == Local_all_lines(pages_data)
      font_sizes == [i \in DOMAIN lines |-> lines[i].font_size]
  IN  IF font_sizes = <<>> THEN <<>>
      ELSE LET body_text_size == most_common(font_sizes)
               sizes  == {font_sizes[i] : i \in DOMAIN font_sizes}
               larger == Descending({x \in sizes : x > body_text_size})
               n == IF Len(larger) < 3 THEN Len(larger) ELSE 3
           IN  [i \in 1..n |-> [size |-> larger[i], level |-> HName(i)]]

\* font_size in size_levels, and size_levels[font_size]
InSizeLevels(font_size, size_levels) ==
  \E i \in DOMAIN size_levels : size_levels[i].size = font_size
SizeLevel(font_size, size_levels) ==
  size_levels[CHOOSE i \in DOMAIN size_levels : size_levels[i].size = font_size].level

\* Counter(font_sizes).most_common(1)[0][0] if font_sizes else 12
Local_body_text_size(pages_data) ==
  LET lines == Local_all_lines(pages_data)
  IN  IF lines = <<>> THEN 12
      ELSE most_common([i \in DOMAIN lines |-> lines[i].font_size])

\* re.match(r'^[A-Z][a-z].*[^.!?]$', text); '!' and '?' are not in the alphabet
Local_sentence_like(text) ==
  /\ IsWordAt(text, 1) /\ Lexicon[text[1].w].cls = "title" /\ Lexicon[text[1].w].len >= 2
  /\ py_len(text) >= 3
  /\ text[Len(text)].k # "dot"

Local_is_likely_heading(text0, font_size, bold, body_text_size) ==
  LET text == py_strip(text0)
  IN  IF py_len(text) < 3 THEN FALSE
      ELSE IF any_contains(text, anti_heading_words) THEN FALSE
      ELSE IF \E p \in 1..5 : heading_patterns(text)[p].ok THEN TRUE
      ELSE IF 10 * font_size > 11 * body_text_size THEN TRUE
      ELSE IF bold /\ py_len(text) < 100 THEN TRUE
      ELSE IF py_isupper(text) /\ py_len(text) < 50 THEN TRUE
      ELSE IF StartsUpper(text, 1)
              /\ (text[Len(text)].k = "colon" \/ Local_sentence_like(text)) THEN TRUE
      ELSE FALSE

Local_determine_heading_level(text, font_size, size_levels) ==
  IF InSizeLevels(font_size, size_levels) THEN SizeLevel(font_size, size_levels)
  ELSE
    \* only the prefix of heading_patterns[0] can hold a dot; every other match
    \* returns 'H1' or falls through to the default 'H1'
    LET m == heading_patterns(text)[1]
        dot_count == Cardinality({i \in DOMAIN m.g1 : m.g1[i].k = "dot"})
    IN  IF m.ok /\ dot_count = 2 THEN "H2"
        ELSE IF m.ok /\ dot_count >= 3 THEN "H3"
        ELSE "H1"

\* re.sub(r'^(Chapter|Section|Part)\s+\d+[:\.\s]*', '', text, flags=re.IGNORECASE)
Local_remove_common_prefix(text) ==
  IF /\ IsWordAt(text, 1) /\ LowAt(text, 1) \in {"chapter", "section", "part"}
     /\ IsSp(text, 2) /\ IsNumAt(text, SkipSp(text, 2))
  THEN From(text, SkipSep(text, SkipSp(text, 2) + 1))
  ELSE text

\* the text as it is, numbering prefix kept
clean_heading_text_keeps_prefix(text) == py_strip(text)

clean_heading_text(text) ==
  LET ms == heading_patterns(text)
      Hit(p) == ms[p].ok /\ py_strip(ms[p].g2) # <<>>
  IN  IF \E p \in 1..5 : Hit(p)
      THEN py_strip(ms[CHOOSE p \in 1..5 : Hit(p) /\ \A q \in 1..(p - 1) : ~Hit(q)].g2)
      ELSE py_strip(Local_remove_common_prefix(text))

score_title_candidate(text) ==
  Cardinality({kw \in Local_title_keywords : contains(text, kw)}) * 3
  + (IF 10 <= py_len(text) /\ py_len(text) <= 100 THEN 2 ELSE 0)
  + (IF ~IsNumAt(text, 1) THEN 1 ELSE 0)
  + (IF text[Len(text)].k \notin {"dot", "colon"} THEN 1 ELSE 0)

UNTITLED == << W("Untitled Document") >>
ERROR_TITLE == << W("Error Processing Document") >>

Local_extract_title(pages_data) ==
  LET first3 == SubSeq(pages_data, 1, IF Len(pages_data) < 3 THEN Len(pages_data) ELSE 3)
      first2 == SubSeq(pages_data, 1, IF Len(pages_data) < 2 THEN Len(pages_data) ELSE 2)
      lines3 == Local_all_lines(first3)
      lines2 == Local_all_lines(first2)
      PageMax(pg) == Max({lines3[j].font_size :
                          j \in {x \in DOMAIN lines3 : lines3[x].page = pg}})
      Cand(i) == /\ lines3[i].font_size = PageMax(lines3[i].page)
                 /\ py_len(lines3[i].text) > 5
                 /\ py_len(lines3[i].text) < 200
                 /\ ~any_contains(lines3[i].text, anti_heading_words)
      C       == {i \in DOMAIN lines3 : Cand(i)}
      Score(i) == score_title_candidate(lines3[i].text)
      \* "first significant text": len(text) > 10 and not text.isdigit()
      Sig(i)  == py_len(lines2[i].text) > 10
                 /\ ~(Len(lines2[i].text) = 1 /\ IsNumAt(lines2[i].text, 1))
      S       == {i \in DOMAIN lines2 : Sig(i)}
  IN  IF C # {}
      THEN lines3[CHOOSE i \in C : /\ \A j \in C : Score(j) <= Score(i)
                                   /\ \A j \in C : Score(j) = Score(i) => i <= j].text
      ELSE IF S # {} THEN lines2[CHOOSE i \in S : \A j \in S : i <= j].text
      ELSE UNTITLED

\* "Limit outline length for performance"
MaxOutline == 50

\* the tests of the loop body of extract_outline that do not look at
\* seen_headings: is_likely_heading(...), cleaned_text and len(cleaned_text) > 2
Local_accepts(line, body_text_size) ==
  LET text == py_strip(line.text)
      cleaned_text == clean_heading_text(text)
  IN  /\ Local_is_likely_heading(text, line.font_size, line.bold, body_text_size)
      /\ cleaned_text # <<>> /\ py_len(cleaned_text) > 2

\* the entry that outline.append(...) adds for line
Local_entry(line, size_levels) ==
  LET text == py_strip(line.text)
  IN  [level |-> Local_determine_heading_level(text, line.font_size, size_levels),
       text  |-> clean_heading_text(text),
       page  |-> line.page]

\* the loop of extract_outline: outline after every line has been visited.
\* seen_headings holds the cleaned texts of the lines appended so far, so a line
\* is appended when it passes the tests and no earlier line that passes them
\* has its cleaned text.
Local_collect(pages_data, size_levels, body_text_size) ==
  LET lines == Local_all_lines(pages_data)
      n == Len(lines)
      cleaned == [i \in 1..n |-> clean_heading_text(py_strip(lines[i].text))]
      accepted == [i \in 1..n |-> Local_accepts(lines[i], body_text_size)]
      NotSeen(i) == \A j \in 1..(i - 1) : ~(accepted[j] /\ cleaned[j] = cleaned[i])
      appended == SelectSeq([i \in 1..n |-> i], LAMBDA i : accepted[i] /\ NotSeen(i))
  IN  [k \in DOMAIN appended |-> Local_entry(lines[appended[k]], size_levels)]

\* the limit taken from the end: outline[-50:]
Local_limit_keeps_last(outline) ==
  IF Len(outline) > MaxOutline
  THEN SubSeq(outline, Len(outline) - MaxOutline + 1, Len(outline))
  ELSE outline

\* if len(outline) > 50: outline = outline[:50]
Local_limit(outline) ==
  IF Len(outline) > MaxOutline THEN SubSeq(outline, 1, MaxOutline) ELSE outline

(***************************************************************************)
(* extract_outline as one call: the stages in the order of the source      *)
(***************************************************************************)
HP_extract_outline(pdf, sem) ==
  IF ~pdf.readable THEN [title |-> <<>>, outline |-> <<>>]       \* except
  ELSE
    LET blocks == HP_extract_text_blocks(pdf)
    IN  IF blocks = <<>> THEN [title |-> <<>>, outline |-> <<>>]
        ELSE
          LET doc_structure == analyze_document_structure(blocks)
          IN  IF \/ HP_extract_title_raises(blocks, doc_structure)
                 \/ HP_headings_raise(blocks, doc_structure)
              THEN [title |-> <<>>, outline |-> <<>>]             \* except
              ELSE
                LET title == HP_extract_title(blocks, doc_structure)
                    heading_blocks == HP_heading_blocks(blocks, doc_structure, sem)
                    page_offset == detect_page_numbering_style(blocks)
                    outline == sort_by_page(
                      HP_build_outline(heading_blocks, doc_structure, page_offset))
                IN  [title |-> title, outline |-> HP_form_special_case(title, outline)]

Local_extract_outline(pdf) ==
  IF ~pdf.readable THEN [title |-> ERROR_TITLE, outline |-> <<>>]   \* except
  ELSE
    LET pages_data == extract_text_with_formatting(pdf)
    IN  IF pages_data = <<>> THEN [title |-> UNTITLED, outline |-> <<>>]
        ELSE
          LET size_levels == analyze_font_sizes(pages_data)
              body_text_size == Local_body_text_size(pages_data)
              title == Local_extract_title(pages_data)
              outline == sort_by_page(
                Local_collect(pages_data, size_levels, body_text_size))
          IN  [title |-> title, outline |-> Local_limit(outline)]

(***************************************************************************)
(* The documents                                                           *)
(***************************************************************************)
MaxLines == 2   \* text lines of a document
MaxPages == 2   \* pages of a document

Line(text, size, bold, top) == [text |-> text, size |-> size, bold |-> bold, top |-> top]

BodyLine == Line(<<W("normal"), Sp, W("body"), Sp, W("text")>>, 11, FALSE, 400)

\* The lines a document is made of, as PyMuPDF reports them: a numbered heading
\* in large bold type, body text, a page marker, a line whose font size is
\* reported as 0, and a large unnumbered line.
Lines == {
  Line(<<N(1), Dot, Sp, W("Summary")>>, 16, TRUE, 100),
  BodyLine,
  Line(<<W("Page"), Sp, N(0)>>, 11, FALSE, 400),
  Line(<<Sp, W("Summary")>>, 0, FALSE, 400),
  Line(<<W("Application"), Sp, W("Form")>>, 14, TRUE, 100) }

\* Numbered headings: 1., 1.2, 1.2.3, ... to MaxDepth numbers
MaxDepth == 5

RECURSIVE DottedNums(_)
DottedNums(d) == IF d = 1 THEN <<N(1)>> ELSE DottedNums(d - 1) \o <<Dot, N(d)>>

NumberPrefix(d) == IF d = 1 THEN <<N(1), Dot>> ELSE DottedNums(d)

\* the two numbered headings of depth d
LevelTextA(d) == NumberPrefix(d) \o <<Sp, W("Intended"), Sp, W("Audience")>>
LevelTextB(d) == NumberPrefix(d) \o <<Sp, W("Topic")>>

LevelSizes == {11, 14, 16}

\* The texts the MiniLM comparison rates as headings (semantic_score > 0.25).
SemTexts ==
  { <<W("Application"), Sp, W("Form")>> }
  \cup {LevelTextA(d) : d \in 1..MaxDepth} \cup {LevelTextB(d) : d \in 1..MaxDepth}

\* the pages of a document whose lines ls lie on the pages f[1] <= f[2] <= ...
MakePages(ls, f, np) ==
  [p \in 1..np |->
     LET F[i \in 0..Len(ls)] ==
           IF i = 0 THEN <<>>
           ELSE IF f[i] = p THEN Append(F[i - 1], ls[i]) ELSE F[i - 1]
     IN  F[Len(ls)]]

Unreadable == [readable |-> FALSE, pages |-> <<>>]

\* The documents of at most MaxLines lines on at most MaxPages pages, and the
\* unreadable one.
SmallPdfs ==
  {Unreadable} \cup
  UNION { UNION { { [readable |-> TRUE, pages |-> MakePages(ls, f, np)] :
                      ls \in [1..n -> Lines],
                      f \in {g \in [1..n -> 1..np] :
                               \A i \in 1..n : \A j \in i..n : g[i] <= g[j]} }
                  : n \in 0..MaxLines }
          : np \in 0..MaxPages }

\* One page: body text, then two numbered headings of any depths and sizes.
LevelPdfs ==
  { [readable |-> TRUE,
     pages |-> << << BodyLine,
                     Line(LevelTextA(d1), s1, FALSE, 400),
                     Line(LevelTextB(d2), s2, FALSE, 400) >> >>] :
      d1 \in 1..MaxDepth, d2 \in 1..MaxDepth, s1 \in LevelSizes, s2 \in LevelSizes }

\* Long documents: n numbered headings "k. Topic k", LinesPerPage to a page,
\* n from just below the limit of the outline to MaxExtra above it.
LinesPerPage == 20
MaxExtra == 2

LongLine(k) == Line(<<N(k), Dot, Sp, W("Topic"), Sp, N(k)>>, 11, FALSE, 400)

LongPdf(n) ==
  LET np == (n + LinesPerPage - 1) \div LinesPerPage
  IN  [readable |-> TRUE,
       pages |-> [p \in 1..np |->
                    LET first == (p - 1) * LinesPerPage
                        cnt   == IF n - first < LinesPerPage THEN n - first
                                 ELSE LinesPerPage
                    IN  [i \in 1..cnt |-> LongLine(first + i)]]]

LongPdfs == {LongPdf(n) : n \in (MaxOutline - 1)..(MaxOutline + MaxExtra)}

\* A single all-caps word in body type, alone in its document.
ConfidentialPdf ==
  [readable |-> TRUE,
   pages |-> << << Line(<<W("CONFIDENTIAL")>>, 11, FALSE, 400) >> >>]

\* A numbered heading in large bold type, then body text.
IntroductionPdf ==
  [readable |-> TRUE,
   pages |-> << << Line(<<N(1), Dot, Sp, W("Introduction")>>, 16, TRUE, 100),
                   BodyLine >> >>]

\* Body text, then two all-caps words in large bold type: every typographic
\* signal, no numbering, and a text the MiniLM comparison does not rate a heading.
TypographicPdf ==
  [readable |-> TRUE,
   pages |-> << << BodyLine,
                   Line(<<W("RFP"), Sp, W("CONFIDENTIAL")>>, 16, TRUE, 100) >> >>]

\* Forms: the line "Application Form" in large bold type at the top of the page,
\* then n numbered headings, the headings from below the limit of the forms
\* special case to MaxExtra above it.
FormLimit == 5

FormPdf(n) ==
  [readable |-> TRUE,
   pages |-> << <<Line(<<W("Application"), Sp, W("Form")>>, 14, TRUE, 100)>>
                \o [i \in 1..n |-> LongLine(i)] >>]

FormPdfs == {FormPdf(n) : n \in (FormLimit - 2)..(FormLimit - 1 + MaxExtra)}

ExamplePdfs == {ConfidentialPdf, IntroductionPdf, TypographicPdf} \cup FormPdfs

Pdfs == SmallPdfs \cup LevelPdfs \cup LongPdfs \cup ExamplePdfs

(***************************************************************************)
(* One call of extract_outline, stage by stage                             *)
(***************************************************************************)
VARIABLES
  impl,            \* "hp": process_pdfs.py, "local": process_pdfs_local.py
  pdf,             \* the document
  sem,             \* the texts MiniLM rates as headings
  pc,              \* the stage extract_outline has reached
  blocks,          \* hp: blocks
  pages_data,      \* local: pages_data
  doc_structure,   \* hp: doc_structure; local: [size_levels, body_text_size]
  title,
  heading_blocks,  \* hp: heading_blocks
  page_offset,     \* hp: page_offset
  outline,
  result,          \* the returned record, once pc = "done"
  error,           \* the except branch was taken
  \* the batch drivers
  driver,          \* "main": process_pdfs.main, "local": process_pdfs_local
  files,           \* the directory listing: [stem, ext, pdf]
  next_file,       \* the position of the loop over the listing
  outputs,         \* the output directory: the record written for each stem
  success_count,   \* local: success_count
  batch_pc         \* "running", "done" (the driver returned), "aborted" (it raised)

docvars == << impl, pdf, sem, pc, blocks, pages_data, doc_structure, title,
              heading_blocks, page_offset, outline, result, error >>

batchvars == << driver, files, next_file, outputs, success_count, batch_pc >>

vars == << docvars, batchvars >>

MaxFiles == 2   \* entries of the input directory

\* the names of the directory entries, in the order of the listing
StemNames == [i \in 1..(MaxFiles + 1) |-> i]
Stems == {StemNames[i] : i \in DOMAIN StemNames}

NoFile == [written |-> FALSE, complete |-> FALSE, record |-> EmptyResult]

\* no batch is running
BatchIdle ==
  /\ driver = "none"
  /\ files = <<>>
  /\ next_file = 1
  /\ outputs = [st \in Stems |-> NoFile]
  /\ success_count = 0
  /\ batch_pc = "idle"

NoStructure == [body_font_size |-> 0, font_hierarchy |-> <<>>, total_blocks |-> 0]

Init ==
  /\ impl \in {"hp", "local"}
  /\ pdf \in Pdfs
  /\ sem = SemTexts
  /\ pc = "start"
  /\ blocks = <<>>
  /\ pages_data = <<>>
  /\ doc_structure = NoStructure
  /\ title = <<>>
  /\ heading_blocks = <<>>
  /\ page_offset = 0
  /\ outline = <<>>
  /\ result = EmptyResult
  /\ error = FALSE
  /\ BatchIdle

\* return r
Return(r) == /\ result' = r
             /\ pc' = "done"
             /\ error' = FALSE

\* except Exception: log, return the placeholder
HP_Except == /\ result' = [title |-> <<>>, outline |-> <<>>]
             /\ pc' = "done"
             /\ error' = TRUE

\* blocks = self.extract_text_blocks(pdf_path); if not blocks: return ...
HP_Extract ==
  /\ impl = "hp" /\ pc = "start"
  /\ IF ~pdf.readable
     THEN HP_Except /\ UNCHANGED blocks
     ELSE /\ blocks' = HP_extract_text_blocks(pdf)
          /\ IF blocks' = <<>>
             THEN Return([title |-> <<>>, outline |-> <<>>])
             ELSE pc' = "blocks" /\ UNCHANGED << result, error >>
  /\ UNCHANGED batchvars
  /\ UNCHANGED << impl, pdf, sem, pages_data, doc_structure, title, heading_blocks,
                  page_offset, outline >>

\* doc_structure = self.analyze_document_structure(blocks)
HP_Analyze ==
  /\ impl = "hp" /\ pc = "blocks"
  /\ doc_structure' = analyze_document_structure(blocks)
  /\ pc' = "structure"
  /\ UNCHANGED batchvars
  /\ UNCHANGED << impl, pdf, sem, blocks, pages_data, title, heading_blocks,
                  page_offset, outline, result, error >>

\* title = self.extract_title(blocks, doc_structure)
HP_Title ==
  /\ impl = "hp" /\ pc = "structure"
  /\ IF HP_extract_title_raises(blocks, doc_structure)
     THEN HP_Except /\ UNCHANGED title
     ELSE /\ title' = HP_extract_title(blocks, doc_structure)
          /\ pc' = "title"
          /\ UNCHANGED << result, error >>
  /\ UNCHANGED batchvars
  /\ UNCHANGED << impl, pdf, sem, blocks, pages_data, doc_structure, heading_blocks,
                  page_offset, outline >>

\* the loop over the blocks moved above analyze_document_structure: the
\* blocks are classified against statistics that are not yet there
HP_FindHeadings_before_statistics ==
  /\ impl = "hp" /\ pc = "blocks"
  /\ heading_blocks' = HP_heading_blocks(blocks, doc_structure, sem)
  /\ pc' = "headings"
  /\ UNCHANGED batchvars
  /\ UNCHANGED << impl, pdf, sem, blocks, pages_data, doc_structure, title,
                  page_offset, outline, result, error >>

\* for block in blocks: if self.is_likely_heading(...): heading_blocks.append(block)
HP_FindHeadings ==
  /\ impl = "hp" /\ pc = "title"
  /\ IF HP_headings_raise(blocks, doc_structure)
     THEN HP_Except /\ UNCHANGED heading_blocks
     ELSE /\ heading_blocks' = HP_heading_blocks(blocks, doc_structure, sem)
          /\ pc' = "headings"
          /\ UNCHANGED << result, error >>
  /\ UNCHANGED batchvars
  /\ UNCHANGED << impl, pdf, sem, blocks, pages_data, doc_structure, title,
                  page_offset, outline >>

\* page_offset = self.detect_page_numbering_style(blocks)
HP_DetectPages ==
  /\ impl = "hp" /\ pc = "headings"
  /\ page_offset' = detect_page_numbering_style(blocks)
  /\ pc' = "offset"
  /\ UNCHANGED batchvars
  /\ UNCHANGED << impl, pdf, sem, blocks, pages_data, doc_structure, title,
                  heading_blocks, outline, result, error >>

\* the loop that builds outline
HP_BuildOutline ==
  /\ impl = "hp" /\ pc = "offset"
  /\ outline' = HP_build_outline(heading_blocks, doc_structure, page_offset)
  /\ pc' = "built"
  /\ UNCHANGED batchvars
  /\ UNCHANGED << impl, pdf, sem, blocks, pages_data, doc_structure, title,
                  heading_blocks, page_offset, result, error >>

\* outline.sort(key=lambda x: x["page"])
HP_Sort ==
  /\ impl = "hp" /\ pc = "built"
  /\ outline' = sort_by_page(outline)
  /\ pc' = "sorted"
  /\ UNCHANGED batchvars
  /\ UNCHANGED << impl, pdf, sem, blocks, pages_data, doc_structure, title,
                  heading_blocks, page_offset, result, error >>

\* the forms special case, then result = {...}; return result
HP_Return ==
  /\ impl = "hp" /\ pc = "sorted"
  /\ outline' = HP_form_special_case(title, outline)
  /\ Return([title |-> title, outline |-> outline'])
  /\ UNCHANGED batchvars
  /\ UNCHANGED << impl, pdf, sem, blocks, pages_data, doc_structure, title,
                  heading_blocks, page_offset >>

\* except Exception: log, return the placeholder
Local_Except == /\ result' = [title |-> ERROR_TITLE, outline |-> <<>>]
                /\ pc' = "done"
                /\ error' = TRUE

\* pages_data = self.extract_text_with_formatting(pdf_path); if not pages_data: ...
Local_Extract ==
  /\ impl = "local" /\ pc = "start"
  /\ IF ~pdf.readable
     THEN Local_Except /\ UNCHANGED pages_data
     ELSE /\ pages_data' = extract_text_with_formatting(pdf)
          /\ IF pages_data' = <<>>
             THEN Return([title |-> UNTITLED, outline |-> <<>>])
             ELSE pc' = "pages" /\ UNCHANGED << result, error >>
  /\ UNCHANGED batchvars
  /\ UNCHANGED << impl, pdf, sem, blocks, doc_structure, title, heading_blocks,
                  page_offset, outline >>

\* size_levels, font_info = self.analyze_font_sizes(pages_data); body_text_size = ...
Local_Analyze ==
  /\ impl = "local" /\ pc = "pages"
  /\ doc_structure' = [size_levels    |-> analyze_font_sizes(pages_data),
                       body_text_size |-> Local_body_text_size(pages_data)]
  /\ pc' = "structure"
  /\ UNCHANGED batchvars
  /\ UNCHANGED << impl, pdf, sem, blocks, pages_data, title, heading_blocks,
                  page_offset, outline, result, error >>

\* title = self.extract_title(pages_data)
Local_Title ==
  /\ impl = "local" /\ pc = "structure"
  /\ title' = Local_extract_title(pages_data)
  /\ pc' = "title"
  /\ UNCHANGED batchvars
  /\ UNCHANGED << impl, pdf, sem, blocks, pages_data, doc_structure, heading_blocks,
                  page_offset, outline, result, error >>

\* the loop over pages and lines that appends to outline
Local_Collect ==
  /\ impl = "local" /\ pc = "title"
  /\ outline' = Local_collect(pages_data, doc_structure.size_levels,
                              doc_structure.body_text_size)
  /\ pc' = "built"
  /\ UNCHANGED batchvars
  /\ UNCHANGED << impl, pdf, sem, blocks, pages_data, doc_structure, title,
                  heading_blocks, page_offset, result, error >>

\* outline.sort(key=lambda x: x['page'])
Local_Sort ==
  /\ impl = "local" /\ pc = "built"
  /\ outline' = sort_by_page(outline)
  /\ pc' = "sorted"
  /\ UNCHANGED batchvars
  /\ UNCHANGED << impl, pdf, sem, blocks, pages_data, doc_structure, title,
                  heading_blocks, page_offset, result, error >>

\* the limit of 50, then result = {...}; return result
Local_Return ==
  /\ impl = "local" /\ pc = "sorted"
  /\ outline' = Local_limit(outline)
  /\ Return([title |-> title, outline |-> outline'])
  /\ UNCHANGED batchvars
  /\ UNCHANGED << impl, pdf, sem, blocks, pages_data, doc_structure, title,
                  heading_blocks, page_offset >>

Next ==
  \/ HP_Extract \/ HP_Analyze \/ HP_Title \/ HP_FindHeadings \/ HP_DetectPages
  \/ HP_BuildOutline \/ HP_Sort \/ HP_Return
  \/ Local_Extract \/ Local_Analyze \/ Local_Title \/ Local_Collect
  \/ Local_Sort \/ Local_Return

Spec == Init /\ [][Next]_vars

(***************************************************************************)
(* The batch drivers: main (process_pdfs.py) and process_pdfs_local        *)
(***************************************************************************)
\* The documents of a batch: an unreadable one, one without pages, one with a
\* heading, and one whose font sizes are reported as 0.
BatchPdfs ==
  { Unreadable,
    [readable |-> TRUE, pages |-> <<>>],
    [readable |-> TRUE,
     pages |-> << << Line(<<N(1), Dot, Sp, W("Summary")>>, 16, TRUE, 100) >> >>],
    [readable |-> TRUE,
     pages |-> << << Line(<<Sp, W("Summary")>>, 0, FALSE, 400) >> >>] }

\* the listings of at most MaxFiles entries; an entry that is not a .pdf is no
\* input document
Listings ==
  UNION { { [i \in 1..n |-> [stem |-> StemNames[i], ext |-> e[i], pdf |-> d[i]]] :
              e \in [1..n -> {"pdf", "txt"}], d \in [1..n -> BatchPdfs] }
          : n \in 0..MaxFiles }

\* with open(output_path, 'w') as f: json.dump(record, f): the write succeeds,
\* or open raises and leaves no file, or json.dump raises and leaves a cut file
WriteOutcomes == {"ok", "open_fails", "dump_fails"}

Write(dir, stem, record, w) ==
  IF w = "ok"
  THEN [dir EXCEPT ![stem] = [written |-> TRUE, complete |-> TRUE, record |-> record]]
  ELSE IF w = "dump_fails"
  THEN [dir EXCEPT ![stem] = [written |-> TRUE, complete |-> FALSE, record |-> EmptyResult]]
  ELSE dir

\* input_dir.glob("*.pdf")
pdf_files == SelectSeq(files, LAMBDA f : f.ext = "pdf")

BatchInit ==
  /\ impl = "none" /\ pdf = Unreadable /\ sem = SemTexts /\ pc = "idle"
  /\ blocks = <<>> /\ pages_data = <<>> /\ doc_structure = NoStructure
  /\ title = <<>> /\ heading_blocks = <<>> /\ page_offset = 0
  /\ outline = <<>> /\ result = EmptyResult /\ error = FALSE
  /\ driver \in {"main", "local"}
  /\ files \in Listings
  /\ next_file = 1
  /\ outputs = [st \in Stems |-> NoFile]
  /\ success_count = 0
  /\ batch_pc = "running"

\* one pass of  for filename in os.listdir(pdf_directory)  of main: nothing
\* catches what open or json.dump raise
Main_Step ==
  /\ driver = "main" /\ batch_pc = "running" /\ next_file <= Len(files)
  /\ LET f == files[next_file]
     IN  IF f.ext # "pdf"
         THEN /\ next_file' = next_file + 1
              /\ UNCHANGED << outputs, batch_pc >>
         ELSE \E w \in WriteOutcomes :
                /\ outputs' = Write(outputs, f.stem, HP_extract_outline(f.pdf, sem), w)
                /\ IF w = "ok"
                   THEN next_file' = next_file + 1 /\ UNCHANGED batch_pc
                   ELSE batch_pc' = "aborted" /\ UNCHANGED next_file
  /\ UNCHANGED << driver, files, success_count >>
  /\ UNCHANGED docvars

\* the loop of main is over
Main_Return ==
  /\ driver = "main" /\ batch_pc = "running" /\ next_file > Len(files)
  /\ batch_pc' = "done"
  /\ UNCHANGED << driver, files, next_file, outputs, success_count >>
  /\ UNCHANGED docvars

\* if not pdf_files: ... return False
Local_NoFiles ==
  /\ driver = "local" /\ batch_pc = "running" /\ pdf_files = <<>>
  /\ batch_pc' = "done"
  /\ UNCHANGED << driver, files, next_file, outputs, success_count >>
  /\ UNCHANGED docvars

\* the loop body with seen_headings kept on the extractor, not reset by
\* extract_outline: a heading text already in an earlier record is skipped
Local_Step_shared_seen ==
  /\ driver = "local" /\ batch_pc = "running" /\ next_file <= Len(pdf_files)
  /\ LET f == pdf_files[next_file]
         seen == UNION { {outputs[st].record.outline[k].text :
                            k \in DOMAIN outputs[st].record.outline} : st \in Stems }
         r == Local_extract_outline(f.pdf)
         kept == [title |-> r.title,
                  outline |-> SelectSeq(r.outline, LAMBDA e : e.text \notin seen)]
     IN  \E w1 \in WriteOutcomes :
           IF w1 = "ok"
           THEN /\ outputs' = Write(outputs, f.stem, kept, w1)
                /\ success_count' = success_count + 1
           ELSE \E w2 \in WriteOutcomes :
                  /\ outputs' = Write(Write(outputs, f.stem, kept, w1),
                                      f.stem,
                                      [title |-> ERROR_TITLE, outline |-> <<>>], w2)
                  /\ UNCHANGED success_count
  /\ next_file' = next_file + 1
  /\ UNCHANGED << driver, files, batch_pc >>
  /\ UNCHANGED docvars

\* one pass of  for pdf_file in pdf_files  of process_pdfs_local: the try, and
\* on an exception the write of the error placeholder, itself in a try
Local_Step ==
  /\ driver = "local" /\ batch_pc = "running" /\ next_file <= Len(pdf_files)
  /\ LET f == pdf_files[next_file]
     IN  \E w1 \in WriteOutcomes :
           IF w1 = "ok"
           THEN /\ outputs' = Write(outputs, f.stem, Local_extract_outline(f.pdf), w1)
                /\ success_count' = success_count + 1
           ELSE \E w2 \in WriteOutcomes :
                  /\ outputs' = Write(Write(outputs, f.stem,
                                            Local_extract_outline(f.pdf), w1),
                                      f.stem,
                                      [title |-> ERROR_TITLE, outline |-> <<>>], w2)
                  /\ UNCHANGED success_count
  /\ next_file' = next_file + 1
  /\ UNCHANGED << driver, files, batch_pc >>
  /\ UNCHANGED docvars

\* the loop of process_pdfs_local is over: return True
Local_Finish ==
  /\ driver = "local" /\ batch_pc = "running"
  /\ pdf_files # <<>> /\ next_file > Len(pdf_files)
  /\ batch_pc' = "done"
  /\ UNCHANGED << driver, files, next_file, outputs, success_count >>
  /\ UNCHANGED docvars

BatchNext == Main_Step \/ Main_Return \/ Local_NoFiles \/ Local_Step \/ Local_Finish

BatchSpec == BatchInit /\ [][BatchNext]_vars

(***************************************************************************)
(* Properties                                                              *)
(***************************************************************************)
Returned == pc = "done"

\* the text lines of the document, in reading order, each with its page index
SourceLines ==
  Flatten([p \in DOMAIN pdf.pages |->
             [i \in DOMAIN pdf.pages[p] |->
                [text |-> py_strip(pdf.pages[p][i].text),
                 size |-> pdf.pages[p][i].size,
                 page |-> p - 1]]])

\* the text an outline entry shows for a line of the document
ShownText(text) == IF impl = "hp" THEN text ELSE clean_heading_text(text)

\* the first line of the document that an outline entry of this text stands for
SourceOf(shown) ==
  LET ls == SourceLines
      Is(i) == ShownText(ls[i].text) = shown
  IN  ls[CHOOSE i \in DOMAIN ls : Is(i) /\ \A j \in 1..(i - 1) : ~Is(j)]

\* the text opens with a dotted numeric prefix: N. or N.N or N.N.N ..., then
\* whitespace
Dotted(text) ==
  /\ HasDottedPrefix(text, 1)
  /\ LET c == Components(text, 1)
     IN  IF c = 1 THEN IsDot(text, 2) /\ IsSp(text, 3) ELSE IsSp(text, 2 * c)

\* C1: the outline returned by extract_outline holds no two entries with equal
\* text (later duplicates of a heading text are dropped).
C1_NoDuplicateText ==
  Returned =>
    \A i, j \in DOMAIN result.outline :
       i # j => result.outline[i].text # result.outline[j].text

\* C2: the outline returned by extract_outline is sorted by page, non-decreasing:
\* outline[i].page <= outline[i+1].page for every adjacent pair.
C2_SortedByPage ==
  Returned =>
    \A i \in 1..(Len(result.outline) - 1) :
       result.outline[i].page <= result.outline[i + 1].page

\* a returned outline with headings from two different pages
C2_Witness ==
  /\ Returned
  /\ Len(result.outline) >= 2
  /\ result.outline[1].page < result.outline[Len(result.outline)].page

\* C3: the outline returned by extract_outline never has more entries than the
\* fixed cap, however many headings the classifier accepts.
C3_OutlineWithinCap == Returned => Len(result.outline) <= MaxOutline

\* the extraction yields no span: the document has no page, or only pages
\* without text lines
ZeroSpans == pdf.readable /\ \A p \in DOMAIN pdf.pages : pdf.pages[p] = <<>>

\* C4: when the extraction yields zero spans, extract_outline returns exactly
\* the record with title "" and outline [] (the call returns: an exception
\* raised inside it is caught before it leaves).
C4_EmptySafety ==
  (Returned /\ ZeroSpans) => result = [title |-> <<>>, outline |-> <<>>]

\* C5: the level of an accepted heading that opens with a dotted numeric prefix
\* depends on the shape of the prefix alone: two headings of one document with
\* the same prefix shape get the same level, whatever their font sizes.
C5_LevelByPrefixOnly ==
  (Returned /\ ~error) =>
    \A i, j \in DOMAIN result.outline :
       LET a == SourceOf(result.outline[i].text).text
           b == SourceOf(result.outline[j].text).text
       IN  (Dotted(a) /\ Dotted(b) /\ Components(a, 1) = Components(b, 1))
             => result.outline[i].level = result.outline[j].level

\* C6: a heading that opens with a dotted numeric prefix has level H1 for N.,
\* H2 for N.N, H3 for N.N.N and H4 for N.N.N.N and every deeper nesting.
C6_LevelFromDotCount ==
  (Returned /\ ~error) =>
    \A i \in DOMAIN result.outline :
       LET a == SourceOf(result.outline[i].text).text
           c == Components(a, 1)
       IN  Dotted(a) => result.outline[i].level = HName(IF c < 4 THEN c ELSE 4)

\* C7: when processing the document fails, extract_outline returns the
\* placeholder with an empty title and an empty outline.
C7_FailurePlaceholder ==
  (Returned /\ error) => result = [title |-> <<>>, outline |-> <<>>]

\* C8: the batch driver runs to the end and leaves exactly one complete output
\* record for every input document, whichever documents or writes fail.
C8_OneRecordPerInput ==
  /\ batch_pc # "aborted"
  /\ batch_pc = "done" =>
       \A i \in DOMAIN files :
          files[i].ext = "pdf" => outputs[files[i].stem].complete

\* C9: every returned record has exactly the fields title and outline, and every
\* outline entry has a level among H1..H4, a text and an integer page.
C9_WellFormed ==
  Returned =>
    /\ DOMAIN result = {"title", "outline"}
    /\ \A i \in DOMAIN result.outline :
          /\ DOMAIN result.outline[i] = {"level", "text", "page"}
          /\ result.outline[i].level \in {"H1", "H2", "H3", "H4"}
          /\ result.outline[i].text # <<>>
          /\ result.outline[i].page \in Nat

\* a returned heading without a numbering prefix, levelled by its font size
C9_Witness ==
  /\ Returned /\ impl = "hp"
  /\ \E i \in DOMAIN result.outline : ~HasDottedPrefix(result.outline[i].text, 1)

\* the largest page index among the text lines of the document
MaxPageIndex == Max({SourceLines[i].page : i \in DOMAIN SourceLines})

PageZeroMarker ==
  \E i \in DOMAIN blocks : contains(blocks[i].text, "page") /\ 0 \in numbers(blocks[i].text)

AllResultsWritten ==
  /\ batch_pc = "done"
  /\ driver = "main" \/ success_count = Len(pdf_files)

C12_AllCapsAloneRejected ==
  (Returned /\ pdf = ConfidentialPdf) => result.outline = <<>>

TitleDone == pc \in {"title", "headings", "offset", "built", "sorted"}

\* the spans extract_title looks at: the text blocks in process_pdfs.py, the
\* lines of the first three pages in process_pdfs_local.py
TitleSpans ==
  IF impl = "hp" THEN blocks
  ELSE Local_all_lines(SubSeq(pages_data, 1,
                              IF Len(pages_data) < 3 THEN Len(pages_data) ELSE 3))

\* the title candidates: in process_pdfs.py the blocks of the first two pages
\* that pass the filters and score above 15; in process_pdfs_local.py the lines
\* in the largest type of their page that pass the filters
TitleCandidates ==
  LET sp == TitleSpans
  IN  IF impl = "hp"
      THEN {i \in DOMAIN sp : /\ HP_title_scored(sp[i])
                              /\ HP_title_score(sp[i], doc_structure) > 15}
      ELSE {i \in DOMAIN sp :
              /\ \A j \in DOMAIN sp : sp[j].page = sp[i].page
                                        => sp[j].font_size <= sp[i].font_size
              /\ py_len(sp[i].text) > 5 /\ py_len(sp[i].text) < 200
              /\ ~any_contains(sp[i].text, anti_heading_words)}

TitleCandidateScore(i) ==
  IF impl = "hp" THEN HP_title_score(TitleSpans[i], doc_structure)
  ELSE score_title_candidate(TitleSpans[i].text)

\* C14: extract_title returns the empty string whenever no candidate span of
\* the first pages clears the title score: no fallback text, no placeholder.
C14_NoCandidateEmptyTitle ==
  (TitleDone /\ TitleCandidates = {}) => title = <<>>

\* C15: a non-empty title is the text of the highest-scoring candidate span,
\* alone or followed by the text of a second candidate of the same page; it is
\* never a string that no span of the document holds.
C15_TitleFromDocument ==
  (TitleDone /\ title # <<>>) =>
    \E i \in TitleCandidates :
       /\ \A j \in TitleCandidates : TitleCandidateScore(j) <= TitleCandidateScore(i)
       /\ \/ title = py_strip(TitleSpans[i].text)
          \/ \E k \in TitleCandidates :
                /\ TitleSpans[k].page = TitleSpans[i].page
                /\ title = py_strip(TitleSpans[i].text) \o <<Sp>> \o py_strip(TitleSpans[k].text)

\* the entries of an outline that lie on page p, in their order
OnPage(o, p) == SelectSeq(o, LAMBDA e : e.page = p)

\* C16: the sort of the outline by page is stable: the entries of one output
\* page stay in the order in which the loop over the spans appended them.
C16_StableSort ==
  [][(pc = "built" /\ pc' = "sorted") =>
       \A p \in {outline[i].page : i \in DOMAIN outline} :
          OnPage(outline', p) = OnPage(outline, p)]_vars

\* a sorted outline with two different headings of one page
C16_Witness ==
  /\ pc = "sorted"
  /\ \E i, j \in DOMAIN outline :
        i < j /\ outline[i].page = outline[j].page /\ outline[i].text # outline[j].text

\* the stage that follows each stage of extract_outline when nothing raises:
\* extraction, statistics, title, classification (with the levels, in
\* process_pdfs_local.py), page offset and levels (process_pdfs.py), sort, result
NextStage ==
  IF impl = "hp"
  THEN { <<"start", "blocks">>, <<"blocks", "structure">>, <<"structure", "title">>,
         <<"title", "headings">>, <<"headings", "offset">>, <<"offset", "built">>,
         <<"built", "sorted">>, <<"sorted", "done">> }
  ELSE { <<"start", "pages">>, <<"pages", "structure">>, <<"structure", "title">>,
         <<"title", "built">>, <<"built", "sorted">>, <<"sorted", "done">> }

\* C17: the stages of one document run in order: the statistics are complete
\* before a span is classified, the spans are classified before levels are
\* assigned, every level is assigned before the outline is sorted, and nothing
\* runs once the result record is built.
C17_StagesInOrder ==
  [][/\ pc # "done"
     /\ pc' # pc
     /\ pc' # "done" => <<pc, pc'>> \in NextStage
     /\ (impl = "hp" /\ pc' = "headings")
          => doc_structure = analyze_document_structure(blocks) /\ doc_structure' = doc_structure
     /\ (impl = "local" /\ pc' = "built")
          => doc_structure # NoStructure /\ doc_structure' = doc_structure
     /\ (impl = "hp" /\ pc' = "built")
          => heading_blocks' = heading_blocks /\ Len(outline') = Len(heading_blocks)
     /\ pc' = "sorted"
          => \A i \in DOMAIN outline : outline[i].level \in {"H1", "H2", "H3", "H4"}
    ]_vars

\* every stage has run and the record holds headings
C17_Witness == Returned /\ ~error /\ result.outline # <<>> /\ result.title # <<>>

\* the level the ratio of a font size to the body size stands for
RatioLevel(size, body) ==
  IF 10 * size >= 15 * body THEN "H1"
  ELSE IF 10 * size >= 13 * body THEN "H2"
  ELSE IF 10 * size >= 11 * body THEN "H3"
  ELSE "H4"

\* the font size has a level of its own: in process_pdfs_local.py it is a key of
\* size_levels, in process_pdfs.py one of the three largest sizes of the headings
SizeBound(size) ==
  IF impl = "hp"
  THEN LET unique_sizes == Descending({heading_blocks[i].font_size : i \in DOMAIN heading_blocks})
       IN  \E r \in 1..3 : r <= Len(unique_sizes) /\ unique_sizes[r] = size
  ELSE InSizeLevels(size, doc_structure.size_levels)

\* C18: an accepted heading without a dotted numeric prefix, whose font size
\* has no level of its own, gets its level from the ratio of its font size to
\* the body size: 1.5 and more is H1, 1.3 and more H2, 1.1 and more H3, else H4.
C18_RatioFallback ==
  (Returned /\ ~error) =>
    \A i \in DOMAIN result.outline :
       LET src  == SourceOf(result.outline[i].text)
           body == IF impl = "hp" THEN doc_structure.body_font_size
                   ELSE doc_structure.body_text_size
       IN  (~Dotted(src.text) /\ ~SizeBound(src.size))
             => result.outline[i].level = RatioLevel(src.size, body)

\* process_pdfs.py has classified the blocks: heading_blocks is complete
HeadingsFound == impl = "hp" /\ pc \in {"headings", "offset", "built", "sorted"}

Numbered(b) == has_numbered_heading_pattern(py_strip(b.text))
Semantic(b) == is_true_heading_semantic(py_strip(b.text), sem)

\* C19: in process_pdfs.py the typographic signals alone never accept a span:
\* without a numbered prefix and without a semantic match a block scores at most
\* 18, every accepted block has one of the two, and a numbered block without a
\* semantic match is accepted only with 5 further points.
C19_TypographyNeverSuffices ==
  HeadingsFound =>
    /\ \A i \in DOMAIN heading_blocks :
          Numbered(heading_blocks[i]) \/ Semantic(heading_blocks[i])
    /\ \A i \in DOMAIN blocks :
          (~Numbered(blocks[i]) /\ ~Semantic(blocks[i]))
            => HP_heading_score(blocks[i], doc_structure, sem) <= 18
    /\ \A i \in DOMAIN heading_blocks :
          (Numbered(heading_blocks[i]) /\ ~Semantic(heading_blocks[i]))
            => HP_heading_score(heading_blocks[i], doc_structure, sem) >= 20 + 5

\* a block with every typographic signal and neither of the other two: it
\* scores 18 and is not accepted, beside a document's accepted headings
C19_Witness ==
  /\ HeadingsFound
  /\ \E i \in DOMAIN blocks :
        /\ ~Numbered(blocks[i]) /\ ~Semantic(blocks[i])
        /\ HP_heading_score(blocks[i], doc_structure, sem) = 18
        /\ \A j \in DOMAIN heading_blocks : heading_blocks[j] # blocks[i]

\* process_pdfs.py has returned a record whose title holds 'form' or 'application'
FormTitleReturned ==
  /\ Returned /\ impl = "hp" /\ ~error
  /\ result.title # <<>>
  /\ contains(result.title, "form") \/ contains(result.title, "application")

\* C20: in process_pdfs.py a record whose non-empty title holds 'form' or
\* 'application' has at most 5 outline entries: more than 5 accepted headings
\* give the empty outline, 5 or fewer are all returned, in their order.
C20_FormOutlineAtMostFive ==
  FormTitleReturned =>
    /\ Len(result.outline) <= 5
    /\ IF Len(heading_blocks) > 5
       THEN result.outline = <<>>
       ELSE /\ Len(result.outline) = Len(heading_blocks)
            /\ \A i \in DOMAIN result.outline :
                  result.outline[i].text = py_strip(heading_blocks[i].text)

\* a form with more than 5 accepted headings, returned with an empty outline
C20_Witness ==
  FormTitleReturned /\ Len(heading_blocks) > 5 /\ result.outline = <<>>

\* process_pdfs_local.py has returned the record of a document with pages
LocalReturned == Returned /\ impl = "local" /\ ~error /\ pages_data # <<>>

\* the deduplicated headings process_pdfs_local.py accepts, in the order in
\* which the loop over the lines meets them
Encountered ==
  Local_collect(pages_data, doc_structure.size_levels, doc_structure.body_text_size)

\* C21: in process_pdfs_local.py the cap follows the page sort: of more than 50
\* accepted headings the 50 returned are those of the lowest pages, every
\* dropped heading lies on a page no lower than any returned one, and within a
\* page the headings met first are the ones returned.
C21_CapKeepsLowestPages ==
  LocalReturned =>
    LET enc == Encountered
        Kept(k) == \E i \in DOMAIN result.outline : result.outline[i] = enc[k]
    IN  /\ Len(result.outline) = (IF Len(enc) > MaxOutline THEN MaxOutline ELSE Len(enc))
        /\ \A i \in DOMAIN result.outline : \E k \in DOMAIN enc : result.outline[i] = enc[k]
        /\ \A d, r \in DOMAIN enc :
              (~Kept(d) /\ Kept(r)) =>
                 /\ enc[d].page >= enc[r].page
                 /\ enc[d].page = enc[r].page => r < d

\* more than 50 headings were accepted, 50 are returned, and a dropped heading
\* shares its page with a returned one
C21_Witness ==
  /\ LocalReturned
  /\ LET enc == Encountered
     IN  /\ Len(enc) > MaxOutline
         /\ Len(result.outline) = MaxOutline
         /\ \E d \in DOMAIN enc :
               /\ \A i \in DOMAIN result.outline : result.outline[i] # enc[d]
               /\ \E i \in DOMAIN result.outline : result.outline[i].page = enc[d].page

=============================================================================
